---- MODULE Spec2Model ----
(***************************************************************************)
(* vjmfc: a V4L2 multi-planar M2M decoder session (Samsung MFC).           *)
(*                                                                         *)
(* The repository holds two revisions of the decode session's main():      *)
(*   rev = "main_c"   : src/main.c lines 1-297, with src/dev.c and the     *)
(*                      first half of src/v4l2_mfc.c (lines 1-242);        *)
(*   rev = "part_003" : src/unnamed/part_003, with the second half of      *)
(*                      src/v4l2_mfc.c (lines 244-479).                    *)
(* Both are modelled as one sequential process whose position is pc; the   *)
(* device (the kernel driver behind the descriptor) is the environment,    *)
(* and every control call's outcome is drawn with \E.                      *)
(***************************************************************************)
EXTENDS Integers, Sequences, FiniteSets, TLC

\* ------------------------------------------------------------- bounds
\* Largest buffer count the device grants on REQBUFS (2 are requested).
MaxGrant == 3
\* Number of /sys/class/video4linux entries readdir can return.
NumEntries == 2
\* Largest plane length a QUERYBUF reply (or an uninitialised slot) holds.
MaxPlaneLen == 1
\* Largest number of streams in the input container.
MaxStreams == 2
\* largest extradata_size of an input, and largest bytesused the device reports
MaxExtradata == 1
MaxCalls == 3
MaxThreadCalls == 3

\* ------------------------------------------------- program constants
\* struct mfc_buffer: two plane slots (plane[2] / paddr[2])
NUM_SLOTS == 2
\* v4l2_mfc_querybuf (v4l2_mfc.c:75): buf->length for the OUTPUT type, the
\* number of plane slots the device fills
QUERYBUF_OUTPUT_LENGTH == 1

Revisions == {"main_c", "part_003"}
PlaneLens == 0..MaxPlaneLen
Slots == 0..(NUM_SLOTS - 1)
BufIdx == 0..(MaxGrant - 1)

\* V4L2 capability bits, as a set of names
CAP_CAPTURE == "V4L2_CAP_VIDEO_CAPTURE_MPLANE"
CAP_OUTPUT == "V4L2_CAP_VIDEO_OUTPUT_MPLANE"
CAP_STREAMING == "V4L2_CAP_STREAMING"
CAP_M2M == "V4L2_CAP_VIDEO_M2M_MPLANE"
CapBits == {CAP_CAPTURE, CAP_OUTPUT, CAP_STREAMING, CAP_M2M}

OUTPUT == "V4L2_BUF_TYPE_VIDEO_OUTPUT_MPLANE"
CAPTURE == "V4L2_BUF_TYPE_VIDEO_CAPTURE_MPLANE"
NOTYPE == "-"

\* ---------------------------------------------------- pure functions

\* v4l2_mfc_querycap: 0 accepts, non-zero rejects.  ioctl_ok is the result
\* of the VIDIOC_QUERYCAP call, caps what it wrote to cap.capabilities.
v4l2_mfc_querycap(ioctl_ok, caps) ==
    IF ~ioctl_ok THEN -1
    ELSE IF CAP_CAPTURE \notin caps THEN -1
    ELSE IF CAP_OUTPUT \notin caps THEN -1
    ELSE IF CAP_STREAMING \notin caps THEN -1
    ELSE 0

\* query_caps (part_002): the capability word, 0 (no bit) when the call fails
query_caps(ioctl_ok, caps) == IF ~ioctl_ok THEN {} ELSE caps

\* check_m2m_caps (part_002)
check_m2m_caps(ioctl_ok, caps) ==
    LET c == query_caps(ioctl_ok, caps) IN
    \/ CAP_M2M \in c
    \/ (CAP_CAPTURE \in c /\ CAP_OUTPUT \in c /\ CAP_STREAMING \in c)

\* av.c: the codec types and ids a stream can carry
MediaTypes == {"AVMEDIA_TYPE_VIDEO", "AVMEDIA_TYPE_AUDIO"}
CodecIds == {"AV_CODEC_ID_H264", "AV_CODEC_ID_MPEG4", "AV_CODEC_ID_H263",
             "AV_CODEC_ID_MPEG2VIDEO", "AV_CODEC_ID_MPEG1VIDEO",
             "AV_CODEC_ID_VP8", "AV_CODEC_ID_AAC"}
StreamRecs == [codec_type : MediaTypes, codec_id : CodecIds]
StreamLists == UNION {[1..n -> StreamRecs] : n \in 0..MaxStreams}
NOCODEC == "0"

\* get_video_codec_ctxt: the lowest-index stream of type video (its
\* position, counted from 1), or 0 for NULL
RECURSIVE FirstVideoFrom(_, _)
FirstVideoFrom(streams, k) ==
    IF k > Len(streams) THEN 0
    ELSE IF streams[k].codec_type = "AVMEDIA_TYPE_VIDEO" THEN k
    ELSE FirstVideoFrom(streams, k + 1)

get_video_codec_ctxt_first(streams) == IF Len(streams) > 0 THEN 1 ELSE 0

get_video_codec_ctxt(streams) == FirstVideoFrom(streams, 1)

\* get_codec_id: the V4L2 pixel format of the first video stream, 0 if none
get_codec_id(streams) ==
    LET cc == get_video_codec_ctxt(streams) IN
    IF cc = 0 THEN NOCODEC
    ELSE LET id == streams[cc].codec_id IN
         CASE id = "AV_CODEC_ID_H264" -> "V4L2_PIX_FMT_H264"
           [] id = "AV_CODEC_ID_MPEG4" -> "V4L2_PIX_FMT_MPEG4"
           [] id = "AV_CODEC_ID_H263" -> "V4L2_PIX_FMT_H263"
           [] id = "AV_CODEC_ID_MPEG2VIDEO" -> "V4L2_PIX_FMT_MPEG2"
           [] id = "AV_CODEC_ID_MPEG1VIDEO" -> "V4L2_PIX_FMT_MPEG1"
           [] OTHER -> NOCODEC

\* the largest int; v4l2_mfc_s_fmt's unsigned int size holds every int >= 0
INT_MAX == 2147483647

\* an int product as the machine computes it where it fits (a larger one
\* overflows: marked -1)
IntMul(a, b) == IF a = 0 \/ b <= INT_MAX \div a THEN a * b ELSE -1

\* v4l2_mfc_s_fmt (fd, pfmt, size), v4l2_mfc.c:282: the request's
\* <<pixelformat, plane_fmt[0].sizeimage>>
v4l2_mfc_s_fmt(pfmt, size) == <<pfmt, size>>

\* v4l2_mfc_s_fmt (fd, sizeimage), v4l2_mfc.c:38: the pixel format is fixed
v4l2_mfc_s_fmt_h264(sizeimage) == <<"V4L2_PIX_FMT_H264", sizeimage>>

\* the size mfc_ctxt_init passes: 1024 * 3072, an int product
s_fmt_size == IntMul(1024, 3072)

\* ------------------------------------------------------------- state
VARIABLES
    rev,        \* which revision of main() runs
    pc,         \* position of the process
    ret,        \* main's ret: "EXIT_FAILURE" or "EXIT_SUCCESS"
    fc,         \* ctxt->fc: "NULL" or "ctx"
    extradata_size, \* the opened input's AVCodecContext extradata_size
    codec,      \* the codec main passes to mfc_ctxt_init
    handler,    \* ctxt->handler: -1 or a descriptor (the device's number)
    oc,         \* ctxt->oc
    out,        \* ctxt->out[]: the buffer records
    i,          \* queue_buffers' loop variable
    planes,     \* main.c queue_buffers' local struct v4l2_plane planes[2] (lengths)
    ent,        \* v4l2_find_device: number of directory entries read
    fd,         \* open_and_query's local fd
    cap,        \* v4l2_mfc_querycap's local cap: [ok, caps], NoCap outside the call
    qret,       \* what v4l2_mfc_querycap returned
    granted,    \* device: buffers granted on the OUTPUT queue
    devlen,     \* device: plane lengths of the OUTPUT queue's buffers
    queued,     \* device: indices currently queued on the OUTPUT queue
    isopen,     \* device: descriptors currently open
    streaming,  \* device: queue types on which STREAMON succeeded
    dev,        \* part_003 mfc_ctxt_init's local dev: the located device, -1 for NULL
    mapcnt,     \* per buffer and slot: successful mmap calls
    unmapcnt,   \* per buffer and slot: munmap calls on a live mapping
    mapdone,    \* buffer records whose mapping step returned true
    rejected,   \* devices capability verification rejected
    cands,      \* directory entries seen so far that v4l2_find_device's test
                \* let through to open_and_query, or would have but for handler
    decoder_handler,    \* part_002's three global handles
    converter_handler,
    video_handler,
    devq,       \* device: per queue type, the buffers queued, oldest first
    tpc,        \* per thread: where it is in its v4l2_mfc_qbuf / v4l2_mfc_dqbuf call
    tbuf,       \* per thread: the struct v4l2_buffer it passes to the calls
    tret,       \* per thread: the call's local ret, TRUE for 0
    trace       \* every call made to the system, in order

vars == <<rev, pc, ret, fc, extradata_size, codec, handler, oc, out, i, planes, ent, fd, cap,
          qret, granted, devlen, queued, isopen, streaming, dev, mapcnt,
          unmapcnt, mapdone, rejected, cands, decoder_handler,
          converter_handler, video_handler, devq, tpc, tbuf, tret, trace>>

\* a call with the part of its request the properties below read: a is
\* <<pixelformat, sizeimage>> for S_FMT, <<planes[0].bytesused>> for QBUF
EvArg(o, d, t, x, p, r, a) ==
    [op |-> o, dev |-> d, type |-> t, idx |-> x, pl |-> p, ok |-> r, arg |-> a]

Ev(o, d, t, x, p, r) == EvArg(o, d, t, x, p, r, <<>>)

\* v4l2_mfc_querycap's cap outside a call: nothing in it
NoCap == [ok |-> FALSE, caps |-> {}]

\* calloc'ed struct mfc_buffer
ZeroBuffer ==
    [plane |-> [j \in Slots |-> "NULL"], size |-> [j \in Slots |-> 0],
     bytesused |-> 0, numplanes |-> 0, index |-> 0]

ZeroCount == [k \in BufIdx |-> [j \in Slots |-> 0]]

\* mfc_ctxt_new: calloc, handler = -1; main's ret = EXIT_FAILURE
InitCtxt ==
    /\ ret = "EXIT_FAILURE"
    /\ extradata_size = 0
    /\ codec = NOCODEC
    /\ handler = -1
    /\ oc = 0
    /\ out = [k \in BufIdx |-> ZeroBuffer]
    /\ i = 0
    /\ planes = [j \in Slots |-> 0]
    /\ ent = 0
    /\ fd = -1
    /\ cap = NoCap
    /\ qret = 0
    /\ granted = 0
    /\ devlen = [j \in Slots |-> 0]
    /\ queued = {}
    /\ isopen = {}
    /\ streaming = {}
    /\ dev = -1
    /\ mapcnt = ZeroCount
    /\ unmapcnt = ZeroCount
    /\ mapdone = {}
    /\ rejected = {}
    /\ cands = {}
    /\ decoder_handler = -1
    /\ converter_handler = -1
    /\ video_handler = -1
    /\ devq = [t \in {OUTPUT, CAPTURE} |-> <<>>]
    /\ tpc = [t \in {OUTPUT, CAPTURE} |-> "idle"]
    /\ tbuf = [t \in {OUTPUT, CAPTURE} |-> [type |-> NOTYPE, index |-> -1, used |-> 0]]
    /\ tret = [t \in {OUTPUT, CAPTURE} |-> FALSE]
    /\ trace = <<>>

Init ==
    /\ rev \in Revisions
    /\ pc = "main"
    /\ fc = "NULL"
    /\ InitCtxt

\* groups of variables, for UNCHANGED
devV == <<granted, devlen, queued, streaming>>
mapV == <<mapcnt, unmapcnt, mapdone>>
bufV == <<oc, out, i, planes>>
capV == <<cap, qret>>
p2V == <<decoder_handler, converter_handler, video_handler>>
thrV == <<tpc, tbuf, tret>>

\* ------------------------------------------------- main, up to the device

\* main: argc != 2 returns at once, before any context exists
MainArgs ==
    /\ pc = "main"
    /\ \E argc \in {1, 2} :
         pc' = IF argc # 2 THEN "exit" ELSE "ctxt_open"
    /\ UNCHANGED <<rev, thrV, cands, p2V, devq, extradata_size, ret, fc, codec, handler, ent, fd, dev, isopen,
                   rejected, trace, devV, mapV, bufV, capV>>

\* mfc_ctxt_open: av_context_new gives a context or NULL
MfcCtxtOpen ==
    /\ pc = "ctxt_open"
    /\ \E opened \in BOOLEAN :
         /\ fc' = IF opened THEN "ctx" ELSE "NULL"
         /\ pc' = IF opened THEN "codec" ELSE "bail"
         /\ \E size \in 0..MaxExtradata :
              extradata_size' = IF opened THEN size ELSE 0
    /\ UNCHANGED <<rev, thrV, cands, p2V, devq, ret, codec, handler, ent, fd, dev, isopen, rejected,
                   trace, devV, mapV, bufV, capV>>

\* main: codec = get_codec_id (ctxt->fc); 0 bails out
GetCodecId ==
    /\ pc = "codec"
    /\ \E streams \in StreamLists :
         /\ codec' = get_codec_id(streams)
         /\ pc' = IF codec' = NOCODEC THEN "bail" ELSE "init"
    /\ UNCHANGED <<rev, thrV, cands, p2V, devq, extradata_size, ret, fc, handler, ent, fd, dev, isopen, rejected,
                   trace, devV, mapV, bufV, capV>>

\* ---------------------------------------- dev.c: v4l2_find_device (main_c)

\* v4l2_find_device's test before open_and_query (dev.c:104): the entry has
\* a resolved device node, no handler was found yet, the driver name matches
find_device_tries_any(hasdevice, h, matches) == hasdevice /\ matches

find_device_tries(hasdevice, h, matches) == hasdevice /\ h = -1 /\ matches

\* mfc_ctxt_init (main.c:222) enters v4l2_find_device: handler = -1, opendir
FindDeviceOpenDir ==
    /\ pc = "init"
    /\ rev = "main_c"
    /\ \E dirok \in BOOLEAN :
         pc' = IF dirok THEN "find" ELSE "bail"
    /\ ent' = 0
    /\ handler' = -1
    /\ UNCHANGED <<rev, thrV, cands, p2V, devq, extradata_size, ret, fc, codec, fd, dev, isopen, rejected, trace,
                   devV, mapV, bufV, capV>>

\* one pass of the readdir loop, up to the open call of open_and_query.
\* The entry's number is the device's number.
FindDeviceEntry ==
    /\ pc = "find"
    /\ ent < NumEntries
    /\ \E isvideo, hasdriver, hasdevice, matches, openok \in BOOLEAN :
         /\ IF isvideo /\ hasdriver /\ find_device_tries(hasdevice, handler, matches)
            THEN /\ trace' = Append(trace, Ev("open", ent, NOTYPE, -1, -1, openok))
                 /\ IF openok
                    THEN /\ fd' = ent
                         /\ isopen' = isopen \cup {ent}
                         /\ pc' = "querycap"
                         /\ ent' = ent
                    ELSE /\ fd' = -1
                         /\ isopen' = isopen
                         /\ pc' = "find"
                         /\ ent' = ent + 1
            ELSE /\ ent' = ent + 1
                 /\ UNCHANGED <<pc, fd, isopen, trace>>
         /\ cands' = IF isvideo /\ hasdriver /\ hasdevice /\ matches
                      THEN cands \cup {ent} ELSE cands
    /\ UNCHANGED <<rev, thrV, p2V, devq, extradata_size, ret, fc, codec, handler, dev, rejected, devV, mapV,
                   bufV, capV>>

\* v4l2_mfc_querycap on descriptor d: the ioctl fills the local cap
QueryCapOn(d) ==
    \E ioctl_ok \in BOOLEAN, caps \in SUBSET CapBits :
        /\ cap' = [ok |-> ioctl_ok, caps |-> caps]
        /\ qret' = v4l2_mfc_querycap(ioctl_ok, caps)
        /\ trace' = Append(trace, Ev("QUERYCAP", d, NOTYPE, -1, -1, ioctl_ok))

QueryCap ==
    /\ pc = "querycap"
    /\ QueryCapOn(IF rev = "main_c" THEN fd ELSE handler)
    /\ pc' = "querycap_ret"
    /\ UNCHANGED <<rev, thrV, cands, p2V, devq, extradata_size, ret, fc, codec, handler, ent, fd, dev, isopen,
                   rejected, devV, mapV, bufV>>

\* open_and_query keeps the descriptor when v4l2_mfc_querycap returned 0
open_and_query_keeps(q) == q = 0

\* open_and_query after v4l2_mfc_querycap: *handler = fd, or close (fd)
OpenAndQueryRet ==
    /\ pc = "querycap_ret"
    /\ rev = "main_c"
    /\ IF open_and_query_keeps(qret)
       THEN /\ handler' = fd
            /\ UNCHANGED <<isopen, trace>>
       ELSE /\ handler' = handler
            /\ isopen' = isopen \ {fd}
            /\ trace' = Append(trace, Ev("close", fd, NOTYPE, -1, -1, TRUE))
    /\ rejected' = IF qret # 0 THEN rejected \cup {fd} ELSE rejected
    /\ fd' = -1
    /\ cap' = NoCap
    /\ ent' = ent + 1
    /\ pc' = "find"
    /\ UNCHANGED <<rev, thrV, cands, p2V, devq, extradata_size, ret, fc, codec, dev, qret, devV, mapV, bufV>>

\* readdir returns NULL: closedir, return handler; mfc_ctxt_init (main.c:223)
\* gives up when it is -1
FindDeviceEnd ==
    /\ pc = "find"
    /\ pc' = IF handler = -1 THEN "bail" ELSE "s_fmt"
    /\ UNCHANGED <<rev, thrV, cands, p2V, devq, extradata_size, ret, fc, codec, handler, ent, fd, dev, isopen,
                   rejected, trace, devV, mapV, bufV, capV>>

\* ------------------------------------- part_003: locate, open, verify

\* v4l2_find_device in the revision part_003 calls returns the device's path
\* or NULL
LocateDevice ==
    /\ pc = "init"
    /\ rev = "part_003"
    /\ \E d \in {-1} \cup (0..(NumEntries - 1)) :
         /\ dev' = d
         /\ pc' = IF d = -1 THEN "bail" ELSE "open"
    /\ UNCHANGED <<rev, thrV, cands, p2V, devq, extradata_size, ret, fc, codec, handler, ent, fd, isopen, rejected,
                   trace, devV, mapV, bufV, capV>>

\* ctxt->handler = open (dev, O_RDWR | O_NONBLOCK, 0); free (dev)
OpenDevice ==
    /\ pc = "open"
    /\ \E openok \in BOOLEAN :
         /\ trace' = Append(trace, Ev("open", dev, NOTYPE, -1, -1, openok))
         /\ handler' = IF openok THEN dev ELSE -1
         /\ isopen' = IF openok THEN isopen \cup {dev} ELSE isopen
         /\ pc' = IF handler' < 0 THEN "bail" ELSE "querycap"
    /\ dev' = -1
    /\ UNCHANGED <<rev, thrV, cands, p2V, devq, extradata_size, ret, fc, codec, ent, fd, rejected, devV, mapV, bufV,
                   capV>>

\* mfc_ctxt_init (part_003:211): a non-zero v4l2_mfc_querycap fails the init
cap_check_next_ignored(q) == "s_fmt"

cap_check_next(q) == IF q # 0 THEN "bail" ELSE "s_fmt"

MfcCapCheck ==
    /\ pc = "querycap_ret"
    /\ rev = "part_003"
    /\ pc' = cap_check_next(qret)
    /\ rejected' = IF qret # 0 THEN rejected \cup {handler} ELSE rejected
    /\ cap' = NoCap
    /\ UNCHANGED <<rev, thrV, cands, p2V, devq, extradata_size, ret, fc, codec, handler, ent, fd, dev, isopen, qret,
                   trace, devV, mapV, bufV>>

\* ------------------------------------------ OUTPUT queue: format, buffers

\* every ioctl below goes to ctxt->handler
Ioctl(o, t, x, r) == Ev(o, handler, t, x, -1, r)

\* mfc_ctxt_init after v4l2_mfc_s_fmt: main.c goes on to REQBUFS (main.c:231),
\* part_003 reads the format first (part_003:221)
after_s_fmt(r) == IF r = "main_c" THEN "reqbufs" ELSE "g_fmt"

\* mfc_ctxt_init returns false when v4l2_mfc_s_fmt did not return 0
s_fmt_next_unchecked(ok, r) == after_s_fmt(r)

s_fmt_next(ok, r) == IF ok THEN after_s_fmt(r) ELSE "bail"

\* v4l2_mfc_s_fmt (ctxt->handler, codec, 1024 * 3072)
SetFormat ==
    /\ pc = "s_fmt"
    /\ \E ok \in BOOLEAN :
         /\ trace' = Append(trace, EvArg("S_FMT", handler, OUTPUT, -1, -1, ok,
                                         v4l2_mfc_s_fmt(codec, s_fmt_size)))
         /\ pc' = s_fmt_next(ok, rev)
    /\ UNCHANGED <<rev, thrV, cands, p2V, devq, extradata_size, ret, fc, codec, handler, ent, fd, dev, isopen,
                   rejected, devV, mapV, bufV, capV>>

\* v4l2_mfc_g_fmt (v4l2_mfc.c:433): the queue type of the request
g_fmt_type == CAPTURE

\* part_003:221: v4l2_mfc_g_fmt (ctxt->handler, &fmt)
GetFormat ==
    /\ pc = "g_fmt"
    /\ \E ok \in BOOLEAN :
         /\ trace' = Append(trace, Ioctl("G_FMT", g_fmt_type, -1, ok))
         /\ pc' = IF ok THEN "reqbufs" ELSE "bail"
    /\ UNCHANGED <<rev, thrV, cands, p2V, devq, extradata_size, ret, fc, codec, handler, ent, fd, dev, isopen,
                   rejected, devV, mapV, bufV, capV>>

\* queue_buffers' loop test: for (...; i < ctxt->oc; ...), then return true
\* to mfc_ctxt_init, which goes on to v4l2_mfc_streamon
LoopPc_unbounded(ii, n) == "querybuf"

LoopPc(ii, n) == IF ii < n THEN "querybuf" ELSE "streamon"

\* ctxt->oc = count, with count as v4l2_mfc_reqbufs wrote it back
pool_count(count) == count

\* mfc_ctxt_init returns false before ctxt->oc = count when v4l2_mfc_reqbufs
\* did not return 0, whatever *buf_cnt holds by then
reqbufs_oc_unchecked(ok, count, old) == pool_count(count)

reqbufs_oc(ok, count, old) == IF ok THEN pool_count(count) ELSE old

\* v4l2_mfc_reqbufs with count = 2, then oc = count, out = calloc (count),
\* and queue_buffers starts.  The device grants g buffers, all with the
\* plane lengths geom of the queue's format; v4l2_mfc_reqbufs writes the
\* device's count back (g) whether the ioctl succeeded or not.
ReqBufs ==
    /\ pc = "reqbufs"
    /\ \E ok \in BOOLEAN, g \in 0..MaxGrant, geom \in [Slots -> PlaneLens] :
         /\ trace' = Append(trace, Ioctl("REQBUFS", OUTPUT, -1, ok))
         /\ oc' = reqbufs_oc(ok, g, oc)
         /\ IF ok
            THEN /\ granted' = g
                 /\ devlen' = geom
                 /\ pc' = LoopPc(0, oc')
            ELSE /\ UNCHANGED <<granted, devlen>>
                 /\ pc' = "bail"
    /\ i' = 0
    /\ UNCHANGED <<rev, thrV, cands, p2V, devq, extradata_size, ret, fc, codec, handler, ent, fd, dev, isopen,
                   rejected, queued, streaming, mapV, out, planes, capV>>

\* v4l2_mfc_querybuf for buffer i.
\* main_c (v4l2_mfc.c:75): buf->length = 1 for the OUTPUT type, so the device
\* fills planes[0] only; planes[1] of queue_buffers' local array holds
\* whatever the stack held.
\* part_003: the reply lands in b->planes and b->buf of the calloc'ed record.
\* The reply's planes[0].bytesused is kept in the record: part_003 reads it in
\* place and map_buffer copies it (main.c:152) before queue_buffers reads it.
QueryBuf ==
    /\ pc = "querybuf"
    /\ \E ok \in BOOLEAN, garbage \in PlaneLens, used \in 0..MaxExtradata :
         /\ ok => i < granted
         /\ trace' = Append(trace, Ioctl("QUERYBUF", OUTPUT, i, ok))
         /\ pc' = IF ok THEN "map" ELSE "bail"
         /\ IF ~ok THEN UNCHANGED <<planes, out>>
            ELSE IF rev = "main_c"
            THEN /\ planes' = [j \in Slots |-> IF j < QUERYBUF_OUTPUT_LENGTH
                                                  THEN devlen[j] ELSE garbage]
                 /\ out' = [out EXCEPT ![i].bytesused = used]
            ELSE /\ out' = [out EXCEPT ![i].size = devlen, ![i].index = i,
                                       ![i].bytesused = used]
                 /\ planes' = planes
    /\ UNCHANGED <<rev, thrV, cands, p2V, devq, extradata_size, ret, fc, codec, handler, ent, fd, dev, isopen,
                   rejected, devV, mapV, oc, i, capV>>

\* --------------------------------------------------------------- mapping

\* one pass of map_buffer's loop (main.c:150-169) on slot j: st is
\* [b: the record, ok: no mmap failed so far, calls: the mmap calls made];
\* len is buf->m.planes[j].length, r whether this mmap succeeds
MapBufferSlot(st, j, len, r) ==
    IF ~st.ok THEN st
    ELSE LET b1 == [st.b EXCEPT !.size[j] = len] IN
         IF len = 0 THEN [st EXCEPT !.b = b1]
         ELSE IF r
         THEN [b |-> [b1 EXCEPT !.plane[j] = "MAPPED",
                                !.numplanes = b1.numplanes + 1],
               ok |-> TRUE, calls |-> Append(st.calls, <<j, TRUE>>)]
         ELSE [b |-> [b1 EXCEPT !.plane[j] = "MAP_FAILED"],
               ok |-> FALSE, calls |-> Append(st.calls, <<j, FALSE>>)]

\* map_buffer (main.c:145): both slots in turn
map_buffer(b, lens, res) ==
    MapBufferSlot(MapBufferSlot([b |-> b, ok |-> TRUE, calls |-> <<>>],
                                0, lens[0], res[0]),
                  1, lens[1], res[1])

\* one pass of map_planes' loop (part_003:147-162) on slot j
MapPlanesSlot(st, j, r) ==
    IF ~st.ok THEN st
    ELSE IF st.b.size[j] = 0 THEN st
    ELSE IF r
    THEN [st EXCEPT !.b.plane[j] = "MAPPED",
                    !.calls = Append(st.calls, <<j, TRUE>>)]
    ELSE [st EXCEPT !.b.plane[j] = "MAP_FAILED", !.ok = FALSE,
                    !.calls = Append(st.calls, <<j, FALSE>>)]

\* map_planes (part_003:141)
map_planes(b, res) ==
    MapPlanesSlot(MapPlanesSlot([b |-> b, ok |-> TRUE, calls |-> <<>>],
                                0, res[0]),
                  1, res[1])

\* the mmap calls of one mapping step, as trace events for buffer record k
MmapEvents(k, calls) ==
    [n \in 1..Len(calls) |-> Ev("mmap", handler, OUTPUT, k, calls[n][1], calls[n][2])]

\* the successful ones counted
CountMaps(cnt, k, calls) ==
    [cnt EXCEPT ![k] = [j \in Slots |->
        cnt[k][j] + Cardinality({n \in 1..Len(calls) : calls[n] = <<j, TRUE>>})]]

\* queue_buffers: map_buffer (ctxt->handler, &buf, b), b->index = i  (main_c)
\*                map_planes (ctxt->handler, b)                      (part_003)
MapBuffer ==
    /\ pc = "map"
    /\ \E res \in [Slots -> BOOLEAN] :
         LET m == IF rev = "main_c" THEN map_buffer(out[i], planes, res)
                  ELSE map_planes(out[i], res) IN
         /\ out' = [out EXCEPT ![i] =
                       IF m.ok /\ rev = "main_c" THEN [m.b EXCEPT !.index = i]
                       ELSE m.b]
         /\ trace' = trace \o MmapEvents(i, m.calls)
         /\ mapcnt' = CountMaps(mapcnt, i, m.calls)
         /\ mapdone' = IF m.ok THEN mapdone \cup {i} ELSE mapdone
         /\ pc' = IF m.ok THEN "qbuf" ELSE "bail"
    /\ UNCHANGED <<rev, thrV, cands, p2V, devq, extradata_size, ret, fc, codec, handler, ent, fd, dev, isopen,
                   rejected, devV, unmapcnt, oc, i, planes, capV>>

\* ------------------------------------------------------- queue, stream on

\* the index queue_buffers hands to v4l2_mfc_qbuf for the record b at out[ii].
\* main_c (main.c:199-210): the loop that fills planes[] runs on the outer
\* loop's own i and leaves it at b->numplanes; that i is the index passed.
queue_index_main_c(ii, b) == b.numplanes

\* part_003 (part_003:190): &b->buf, whose index v4l2_mfc_querybuf set
queue_index_part_003(ii, b) == b.index

queue_index(ii, b) ==
    IF rev = "main_c" THEN queue_index_main_c(ii, b) ELSE queue_index_part_003(ii, b)

\* v4l2_mfc_qbuf (v4l2_mfc.c:151 and :400): the ioctl is issued whatever the
\* buffer's state; the function keeps no record of queued buffers
v4l2_mfc_qbuf_issues(isqueued) == TRUE

\* planes[0].bytesused of the QBUF request for the record b: frame_length =
\* b->bytesused[0] (main.c:205, v4l2_mfc.c:173), or b->buf as QUERYBUF filled it
\* (part_003:190).  Neither queue_buffers calls get_codec_extradata.
qbuf_bytesused(b) == b.bytesused

\* queue_buffers: v4l2_mfc_qbuf, then i++ and the loop test.
\* The device takes a buffer only if its index was granted and it is not
\* queued already.
QBuf ==
    /\ pc = "qbuf"
    /\ LET idx == queue_index(i, out[i]) IN
       \E ok \in BOOLEAN :
         /\ ok => (idx < granted /\ idx \notin queued)
         /\ IF v4l2_mfc_qbuf_issues(idx \in queued)
            THEN /\ trace' = Append(trace, EvArg("QBUF", handler, OUTPUT, idx, -1,
                                               ok, <<qbuf_bytesused(out[i])>>))
                 /\ queued' = IF ok THEN queued \cup {idx} ELSE queued
                 /\ pc' = IF ok THEN LoopPc(idx + 1, oc) ELSE "bail"
            ELSE /\ ~ok
                 /\ UNCHANGED <<trace, queued>>
                 /\ pc' = "bail"
         /\ i' = IF ok THEN idx + 1 ELSE idx
         /\ planes' = IF rev = "main_c"
                      THEN [j \in Slots |-> IF j < out[i].numplanes
                                            THEN out[i].size[j] ELSE planes[j]]
                      ELSE planes
    /\ UNCHANGED <<rev, thrV, cands, p2V, devq, extradata_size, ret, fc, codec, handler, ent, fd, dev, isopen,
                   rejected, granted, devlen, streaming, mapV, oc, out, capV>>

\* main: if (!mfc_ctxt_init (ctxt, codec)) goto bail; ret = EXIT_SUCCESS;
main_ret_success(init_ok, r) == "EXIT_SUCCESS"

main_ret(init_ok, r) == IF init_ok THEN "EXIT_SUCCESS" ELSE r

\* mfc_ctxt_init: v4l2_mfc_streamon for the OUTPUT type; on success main sets
\* ret = EXIT_SUCCESS and falls through to bail
StreamOn ==
    /\ pc = "streamon"
    /\ \E ok \in BOOLEAN :
         /\ trace' = Append(trace, Ioctl("STREAMON", OUTPUT, -1, ok))
         /\ streaming' = IF ok THEN streaming \cup {OUTPUT} ELSE streaming
         /\ ret' = main_ret(ok, ret)
    /\ pc' = "bail"
    /\ UNCHANGED <<rev, thrV, cands, p2V, devq, extradata_size, fc, codec, handler, ent, fd, dev, isopen, rejected,
                   granted, devlen, queued, mapV, bufV, capV>>

\* -------------------------------------------------------------- teardown

\* bail: mfc_ctxt_close
MfcCtxtClose ==
    /\ pc = "bail"
    /\ fc' = "NULL"
    /\ pc' = "deinit"
    /\ UNCHANGED <<rev, thrV, cands, p2V, devq, extradata_size, ret, codec, handler, ent, fd, dev, isopen, rejected,
                   trace, devV, mapV, bufV, capV>>

\* close_device: main.c:255 calls close whatever the handle holds,
\* part_003:251 only when it is not -1
close_device_calls_main_c(h) == TRUE

close_device_calls_part_003(h) == h # -1

close_device_calls(h) ==
    IF rev = "main_c" THEN close_device_calls_main_c(h)
    ELSE close_device_calls_part_003(h)

\* mfc_ctxt_deinit: close_device
CloseDevice ==
    /\ pc = "deinit"
    /\ IF close_device_calls(handler)
       THEN /\ trace' = Append(trace, Ev("close", handler, NOTYPE, -1, -1,
                                         handler \in isopen))
            /\ isopen' = isopen \ {handler}
            /\ handler' = -1
            /\ streaming' = {}
       ELSE UNCHANGED <<trace, isopen, handler, streaming>>
    /\ pc' = "free"
    /\ UNCHANGED <<rev, thrV, cands, p2V, devq, extradata_size, ret, fc, codec, ent, fd, dev, rejected, granted,
                   devlen, queued, mapV, bufV, capV>>

IsMapping(p) == p # "NULL" /\ p # "MAP_FAILED"

\* the slots unmap_buffers passes to munmap for record b.
\* main.c:129: for (j = 0; j < b->numplanes; j++)
unmap_slots_main_c(b) == {j \in Slots : j < b.numplanes /\ IsMapping(b.plane[j])}

\* part_003:126: for (j = 0; j < 2; j++)
unmap_slots_part_003(b) == {j \in Slots : IsMapping(b.plane[j])}

unmap_slots(b) ==
    IF rev = "main_c" THEN unmap_slots_main_c(b) ELSE unmap_slots_part_003(b)

\* the munmap calls of unmap_buffers from record k on, in order
RECURSIVE UnmapEvents(_)
UnmapEvents(k) ==
    IF k >= oc THEN <<>>
    ELSE LET js == unmap_slots(out[k]) IN
         (IF 0 \in js THEN <<Ev("munmap", -1, OUTPUT, k, 0, TRUE)>> ELSE <<>>)
         \o (IF 1 \in js THEN <<Ev("munmap", -1, OUTPUT, k, 1, TRUE)>> ELSE <<>>)
         \o UnmapEvents(k + 1)

\* mfc_ctxt_free: unmap_buffers, free (ctxt->out), free (ctxt); main returns
MfcCtxtFree ==
    /\ pc = "free"
    /\ trace' = trace \o UnmapEvents(0)
    /\ unmapcnt' = [k \in BufIdx |-> [j \in Slots |->
                      IF k < oc /\ j \in unmap_slots(out[k])
                      THEN unmapcnt[k][j] + 1 ELSE unmapcnt[k][j]]]
    /\ pc' = "exit"
    /\ UNCHANGED <<rev, thrV, cands, p2V, devq, extradata_size, ret, fc, codec, handler, ent, fd, dev, isopen,
                   rejected, devV, mapcnt, mapdone, bufV, capV>>

Next ==
    \/ MainArgs
    \/ MfcCtxtOpen
    \/ GetCodecId
    \/ FindDeviceOpenDir
    \/ FindDeviceEntry
    \/ QueryCap
    \/ OpenAndQueryRet
    \/ FindDeviceEnd
    \/ LocateDevice
    \/ OpenDevice
    \/ MfcCapCheck
    \/ SetFormat
    \/ GetFormat
    \/ ReqBufs
    \/ QueryBuf
    \/ MapBuffer
    \/ QBuf
    \/ StreamOn
    \/ MfcCtxtClose
    \/ CloseDevice
    \/ MfcCtxtFree

Spec == Init /\ [][Next]_vars

\* main is one sequential process: whenever a step is possible, one is taken
FairSpec == Spec /\ WF_vars(Next)

\* ------------------------- part_002: main with open_devices, close_devices

\* check_output_caps (part_002:97)
check_output_caps(ioctl_ok, caps) ==
    LET c == query_caps(ioctl_ok, caps) IN
    CAP_OUTPUT \in c /\ CAP_STREAMING \in c

\* open_devices' if / else if chain (part_002:149-156): the handle an entry's
\* device is tried for, given which substrings its driver name holds
open_devices_target(dh, ch, isdec, isconv, isvid0) ==
    IF dh = -1 /\ isdec THEN "decoder"
    ELSE IF ch = -1 /\ isconv THEN "converter"
    ELSE IF isvid0 THEN "video"
    ELSE "none"

\* check_and_open on the device numbered fd: the calls it makes and whether
\* it stores the descriptor in *handler
check_and_open(d, openok, ioctl_ok, passes) ==
    IF ~openok
    THEN [calls |-> <<Ev("open", d, NOTYPE, -1, -1, FALSE)>>, keeps |-> FALSE]
    ELSE IF passes
    THEN [calls |-> <<Ev("open", d, NOTYPE, -1, -1, TRUE),
                      Ev("QUERYCAP", d, NOTYPE, -1, -1, ioctl_ok)>>,
          keeps |-> TRUE]
    ELSE [calls |-> <<Ev("open", d, NOTYPE, -1, -1, TRUE),
                      Ev("QUERYCAP", d, NOTYPE, -1, -1, ioctl_ok),
                      Ev("close", d, NOTYPE, -1, -1, TRUE)>>,
          keeps |-> FALSE]

InitP2 ==
    /\ rev = "part_002"
    /\ pc = "p2_main"
    /\ fc = "NULL"
    /\ InitCtxt

\* main: ret = EXIT_SUCCESS; open_devices: the three handles = -1, opendir;
\* when opendir fails open_devices returns false and main sets EXIT_FAILURE
P2OpenDir ==
    /\ pc = "p2_main"
    /\ decoder_handler' = -1
    /\ converter_handler' = -1
    /\ video_handler' = -1
    /\ ent' = 0
    /\ \E dirok \in BOOLEAN :
         /\ pc' = IF dirok THEN "p2_scan" ELSE "p2_close"
         /\ ret' = IF dirok THEN "EXIT_SUCCESS" ELSE "EXIT_FAILURE"
    /\ UNCHANGED <<rev, thrV, cands, devq, extradata_size, fc, codec, handler, fd,
                   dev, isopen, rejected, trace, devV, mapV, bufV, capV>>

\* one pass of open_devices' readdir loop, check_and_open included
P2Entry ==
    /\ pc = "p2_scan"
    /\ ent < NumEntries
    /\ \E isvideo, hasdriver, hasdevice, isdec, isconv, isvid0, openok,
          ioctl_ok \in BOOLEAN, caps \in SUBSET CapBits :
         LET tgt == IF isvideo /\ hasdriver /\ hasdevice
                    THEN open_devices_target(decoder_handler, converter_handler,
                                             isdec, isconv, isvid0)
                    ELSE "none"
             r == check_and_open(ent, openok, ioctl_ok,
                                 IF tgt = "video"
                                 THEN check_output_caps(ioctl_ok, caps)
                                 ELSE check_m2m_caps(ioctl_ok, caps))
         IN IF tgt = "none"
            THEN UNCHANGED <<p2V, isopen, trace>>
            ELSE /\ trace' = trace \o r.calls
                 /\ isopen' = IF r.keeps THEN isopen \cup {ent} ELSE isopen
                 /\ decoder_handler' =
                        IF tgt = "decoder" /\ r.keeps THEN ent ELSE decoder_handler
                 /\ converter_handler' =
                        IF tgt = "converter" /\ r.keeps THEN ent ELSE converter_handler
                 /\ video_handler' =
                        IF tgt = "video" /\ r.keeps THEN ent ELSE video_handler
    /\ ent' = ent + 1
    /\ UNCHANGED <<rev, thrV, cands, devq, extradata_size, ret, fc, codec, handler, fd,
                   dev, pc, rejected, devV, mapV, bufV, capV>>

\* readdir returns NULL: closedir, open_devices returns whether all three
\* handles are set; main sets ret
P2ScanEnd ==
    /\ pc = "p2_scan"
    /\ ret' = IF decoder_handler # -1 /\ converter_handler # -1 /\ video_handler # -1
              THEN "EXIT_SUCCESS" ELSE "EXIT_FAILURE"
    /\ pc' = "p2_close"
    /\ UNCHANGED <<rev, thrV, cands, p2V, devq, extradata_size, fc, codec, handler, ent,
                   fd, dev, isopen, rejected, trace, devV, mapV, bufV, capV>>

\* close_devices: close on each of the three handles, whatever it holds
P2CloseDevices ==
    /\ pc = "p2_close"
    /\ trace' = trace \o
          <<Ev("close", decoder_handler, NOTYPE, -1, -1, decoder_handler \in isopen),
            Ev("close", converter_handler, NOTYPE, -1, -1, converter_handler \in isopen),
            Ev("close", video_handler, NOTYPE, -1, -1, video_handler \in isopen)>>
    /\ isopen' = isopen \ {decoder_handler, converter_handler, video_handler}
    /\ decoder_handler' = -1
    /\ converter_handler' = -1
    /\ video_handler' = -1
    /\ pc' = "p2_exit"
    /\ UNCHANGED <<rev, thrV, cands, devq, extradata_size, ret, fc, codec, handler, ent,
                   fd, dev, rejected, devV, mapV, bufV, capV>>

NextP2 ==
    \/ P2OpenDir
    \/ P2Entry
    \/ P2ScanEnd
    \/ P2CloseDevices

SpecOpenDevices == InitP2 /\ [][NextP2]_vars

\* ------------------------- v4l2_mfc_qbuf / v4l2_mfc_dqbuf round trip

\* v4l2_mfc_dqbuf sets dqbuf->m.planes = planes, its own local array; the
\* ioctl fills that array and the function returns.  What the caller then
\* finds behind dqbuf->m.planes is whatever the dead stack slot holds, not
\* necessarily what the driver filled in.
dqbuf_planes_after_return(filled, stack) == stack

InitDq ==
    /\ rev = "part_003"
    /\ pc = "dq_run"
    /\ fc = "NULL"
    /\ InitCtxt

\* v4l2_mfc_qbuf of buffer k of queue t with planes[0].bytesused = K; the
\* driver refuses a buffer that is already queued
DqQbuf ==
    /\ pc = "dq_run"
    /\ Len(trace) < MaxCalls
    /\ \E t \in {OUTPUT, CAPTURE}, k \in 0..(MaxGrant - 1),
          K \in 0..MaxExtradata, ok \in BOOLEAN :
         /\ ok => \A n \in 1..Len(devq[t]) : devq[t][n].idx # k
         /\ trace' = Append(trace, EvArg("QBUF", 0, t, k, -1, ok, <<K>>))
         /\ devq' = IF ok
                    THEN [devq EXCEPT ![t] = Append(@, [idx |-> k, used |-> K])]
                    ELSE devq
    /\ UNCHANGED <<rev, thrV, cands, p2V, extradata_size, pc, ret, fc, codec, handler,
                   ent, fd, dev, isopen, rejected, devV, mapV, bufV, capV>>

\* v4l2_mfc_dqbuf on queue t, then the caller reads dqbuf->index and
\* dqbuf->m.planes[0].bytesused.  The driver hands back the oldest queued
\* buffer: an OUTPUT buffer with the bytesused it was queued with, a CAPTURE
\* buffer with the size of the decoded frame.  The event's arg is
\* <<what the caller reads, what the driver filled in>>.
DqDqbuf ==
    /\ pc = "dq_run"
    /\ Len(trace) < MaxCalls
    /\ \E t \in {OUTPUT, CAPTURE}, ok \in BOOLEAN,
          size, stack \in 0..MaxExtradata :
         /\ ok => devq[t] # <<>>
         /\ t = OUTPUT \/ ~ok => size = 0
         /\ ~ok => stack = 0
         /\ IF ok
            THEN LET b == Head(devq[t])
                     filled == IF t = OUTPUT THEN b.used ELSE size
                 IN /\ trace' = Append(trace,
                          EvArg("DQBUF", 0, t, b.idx, -1, TRUE,
                                <<dqbuf_planes_after_return(filled, stack), filled>>))
                    /\ devq' = [devq EXCEPT ![t] = Tail(@)]
            ELSE /\ trace' = Append(trace,
                          EvArg("DQBUF", 0, t, -1, -1, FALSE, <<>>))
                 /\ UNCHANGED devq
    /\ UNCHANGED <<rev, thrV, cands, p2V, extradata_size, pc, ret, fc, codec, handler,
                   ent, fd, dev, isopen, rejected, devV, mapV, bufV, capV>>

NextDq ==
    \/ DqQbuf
    \/ DqDqbuf

SpecDqbuf == InitDq /\ [][NextDq]_vars

\* ------------- two threads on one descriptor, one per queue direction

\* the parser thread works the OUTPUT queue, the display thread the CAPTURE
\* queue; a thread is named by its direction
Threads == {OUTPUT, CAPTURE}

\* the struct v4l2_buffer a thread's calls work on: the one the caller
\* passes in (the functions have no static or global of their own)
thread_buf_shared(self) == OUTPUT

thread_buf(self) == self

\* calls begun so far, finished or not
CallsBegun == Len(trace) + Cardinality({t \in Threads : tpc[t] # "idle"})

InitThr ==
    /\ rev = "part_003"
    /\ pc = "thr_run"
    /\ fc = "NULL"
    /\ InitCtxt

\* the caller fills its struct for buffer k and calls v4l2_mfc_qbuf (the
\* older version stores type and index itself); bytesused is left at 0
ThrQbufFill(self) ==
    /\ pc = "thr_run"
    /\ tpc[self] = "idle"
    /\ CallsBegun < MaxThreadCalls
    /\ \E k \in 0..(MaxGrant - 1) :
         tbuf' = [tbuf EXCEPT ![thread_buf(self)] =
                     [type |-> self, index |-> k, used |-> 0]]
    /\ tpc' = [tpc EXCEPT ![self] = "qbuf_ioctl"]
    /\ UNCHANGED <<rev, cands, p2V, devq, tret, extradata_size, pc, ret, fc, codec,
                   handler, ent, fd, dev, isopen, rejected, trace, devV, mapV,
                   bufV, capV>>

\* ioctl (fd, VIDIOC_QBUF, buf): the driver reads the queue and the index
\* from the struct and refuses a buffer that is already queued
ThrQbufIoctl(self) ==
    /\ tpc[self] = "qbuf_ioctl"
    /\ LET b == tbuf[thread_buf(self)] IN
       \E ok \in BOOLEAN :
         /\ ok => \A n \in 1..Len(devq[b.type]) : devq[b.type][n].idx # b.index
         /\ devq' = IF ok
                    THEN [devq EXCEPT ![b.type] =
                             Append(@, [idx |-> b.index, used |-> b.used])]
                    ELSE devq
         /\ tret' = [tret EXCEPT ![self] = ok]
    /\ tpc' = [tpc EXCEPT ![self] = "qbuf_ret"]
    /\ UNCHANGED <<rev, cands, p2V, tbuf, extradata_size, pc, ret, fc, codec,
                   handler, ent, fd, dev, isopen, rejected, trace, devV, mapV,
                   bufV, capV>>

\* return ret: the thread has the call's result
ThrQbufReturn(self) ==
    /\ tpc[self] = "qbuf_ret"
    /\ LET b == tbuf[thread_buf(self)] IN
       trace' = Append(trace,
                       EvArg("QBUF", 0, self, b.index, -1, tret[self], <<b.used>>))
    /\ tpc' = [tpc EXCEPT ![self] = "idle"]
    /\ UNCHANGED <<rev, cands, p2V, devq, tbuf, tret, extradata_size, pc, ret, fc,
                   codec, handler, ent, fd, dev, isopen, rejected, devV, mapV,
                   bufV, capV>>

\* v4l2_mfc_dqbuf up to the ioctl: dqbuf->type = type, and memory, m.planes
\* (its local array) and length
ThrDqbufFill(self) ==
    /\ pc = "thr_run"
    /\ tpc[self] = "idle"
    /\ CallsBegun < MaxThreadCalls
    /\ tbuf' = [tbuf EXCEPT ![thread_buf(self)].type = self]
    /\ tpc' = [tpc EXCEPT ![self] = "dqbuf_ioctl"]
    /\ UNCHANGED <<rev, cands, p2V, devq, tret, extradata_size, pc, ret, fc, codec,
                   handler, ent, fd, dev, isopen, rejected, trace, devV, mapV,
                   bufV, capV>>

\* ioctl (fd, VIDIOC_DQBUF, dqbuf): the driver takes the oldest buffer of
\* the queue the struct names and stores its index in the struct
ThrDqbufIoctl(self) ==
    /\ tpc[self] = "dqbuf_ioctl"
    /\ LET b == tbuf[thread_buf(self)] IN
       \E ok \in BOOLEAN :
         /\ ok => devq[b.type] # <<>>
         /\ IF ok
            THEN /\ tbuf' = [tbuf EXCEPT ![thread_buf(self)].index =
                                 Head(devq[b.type]).idx]
                 /\ devq' = [devq EXCEPT ![b.type] = Tail(@)]
            ELSE UNCHANGED <<tbuf, devq>>
         /\ tret' = [tret EXCEPT ![self] = ok]
    /\ tpc' = [tpc EXCEPT ![self] = "dqbuf_ret"]
    /\ UNCHANGED <<rev, cands, p2V, extradata_size, pc, ret, fc, codec,
                   handler, ent, fd, dev, isopen, rejected, trace, devV, mapV,
                   bufV, capV>>

\* return ret: the thread has ret and, when it is 0, dqbuf->index
ThrDqbufReturn(self) ==
    /\ tpc[self] = "dqbuf_ret"
    /\ LET b == tbuf[thread_buf(self)] IN
       trace' = Append(trace,
                       EvArg("DQBUF", 0, self,
                             IF tret[self] THEN b.index ELSE -1,
                             -1, tret[self], <<>>))
    /\ tpc' = [tpc EXCEPT ![self] = "idle"]
    /\ UNCHANGED <<rev, cands, p2V, devq, tbuf, tret, extradata_size, pc, ret, fc,
                   codec, handler, ent, fd, dev, isopen, rejected, devV, mapV,
                   bufV, capV>>

NextThr ==
    \/ \E self \in Threads : ThrQbufFill(self)
    \/ \E self \in Threads : ThrQbufIoctl(self)
    \/ \E self \in Threads : ThrQbufReturn(self)
    \/ \E self \in Threads : ThrDqbufFill(self)
    \/ \E self \in Threads : ThrDqbufIoctl(self)
    \/ \E self \in Threads : ThrDqbufReturn(self)

SpecThreads == InitThr /\ [][NextThr]_vars

\* ------------------------------------- v4l2_mfc_s_fmt, both versions, alone

\* an input file with its streams in fc, and nothing done yet
InitSFmt ==
    /\ rev = "part_003"
    /\ pc = "sfmt_codec"
    /\ fc \in StreamLists
    /\ InitCtxt

\* codec = get_codec_id (fc); 0 ends it
SFmtIdentify ==
    /\ pc = "sfmt_codec"
    /\ codec' = get_codec_id(fc)
    /\ pc' = IF codec' = NOCODEC THEN "sfmt_done" ELSE "sfmt_call"
    /\ UNCHANGED <<rev, thrV, cands, p2V, devq, ret, fc, extradata_size, handler, ent, fd, dev, isopen,
                   rejected, trace, devV, mapV, bufV, capV>>

\* the S_FMT one call of the function sends on descriptor 0
SFmtSend(request) ==
    /\ pc = "sfmt_call"
    /\ \E ok \in BOOLEAN :
         trace' = Append(trace, EvArg("S_FMT", 0, OUTPUT, -1, -1, ok, request))
    /\ pc' = "sfmt_done"
    /\ UNCHANGED <<rev, thrV, cands, p2V, devq, ret, fc, extradata_size, codec, handler, ent, fd, dev,
                   isopen, rejected, devV, mapV, bufV, capV>>

\* v4l2_mfc_s_fmt (fd, sizeimage) of v4l2_mfc.c:38: it takes no codec
SFmtCallH264 == SFmtSend(v4l2_mfc_s_fmt_h264(s_fmt_size))

\* v4l2_mfc_s_fmt (fd, pfmt, size) of v4l2_mfc.c:282
SFmtCall == SFmtSend(v4l2_mfc_s_fmt(codec, s_fmt_size))

NextSFmt ==
    \/ SFmtIdentify
    \/ SFmtCallH264
    \/ SFmtCall

SpecSFmt == InitSFmt /\ [][NextSFmt]_vars

\* ---------------------------------------------------------------- claims

Pos == 1..Len(trace)

IsCall(p, o, t) == trace[p].op = o /\ trace[p].type = t

\* the header buffer (index 0) was enqueued successfully before position p
HeaderQueuedBefore(p) ==
    \E q \in 1..(p - 1) : IsCall(q, "QBUF", OUTPUT) /\ trace[q].idx = 0 /\ trace[q].ok

\* C1: a QBUF is issued for buffer index k only after buffer k's planes have
\* been mapped successfully (its mapping step returned true); no QBUF is
\* issued for an index whose mapping step has not run.
C1_QbufOnlyAfterMapped ==
    \A p \in Pos : IsCall(p, "QBUF", OUTPUT) => trace[p].idx \in mapdone

\* the capability sets the data model calls usable
Usable(caps) ==
    \/ CAP_M2M \in caps
    \/ {CAP_OUTPUT, CAP_CAPTURE, CAP_STREAMING} \subseteq caps

\* C2: capability verification accepts exactly the usable capability sets
\* (OUTPUT_MPLANE, CAPTURE_MPLANE and STREAMING together, or M2M_MPLANE), a
\* failed QUERYCAP counting as rejection, for v4l2_mfc_querycap as for
\* check_m2m_caps.
C2_VerifierAcceptsUsable ==
    pc = "querycap_ret" =>
        /\ (qret = 0) <=> (cap.ok /\ Usable(cap.caps))
        /\ check_m2m_caps(cap.ok, cap.caps) <=> (cap.ok /\ Usable(cap.caps))

\* the calls made on device d, in order
CallsOn(d) == SelectSeq(trace, LAMBDA e : e.dev = d)

\* C3: on a device that capability verification rejected, the only calls of
\* the whole execution are its open, the QUERYCAP and then at most a close:
\* no S_FMT, G_FMT, REQBUFS, QUERYBUF, mmap, QBUF or STREAMON, before or
\* after the rejection.
C3_NoCallsOnRejected ==
    \A d \in rejected :
        LET s == CallsOn(d) IN
        /\ Len(s) \in {2, 3}
        /\ s[1].op = "open"
        /\ s[2].op = "QUERYCAP"
        /\ Len(s) = 3 => s[3].op = "close"

\* C3's case: the run ended, a device was rejected and then closed
C3_Witness ==
    /\ pc = "exit"
    /\ \E d \in rejected : Len(CallsOn(d)) = 3

\* C4: enqueuing a buffer that is queued already is rejected with an error
\* and no QBUF call reaches the device for it.
C4_QueuedBufferRejectedLocally ==
    [][(pc = "qbuf" /\ queue_index(i, out[i]) \in queued)
         => (trace' = trace /\ pc' = "bail")]_vars

\* C5: during OUTPUT setup QBUF is never issued for a buffer that is queued
\* at that moment (no index is enqueued twice).
C5_NoIndexQueuedTwice ==
    \A p \in Pos, q \in Pos :
        (p < q /\ IsCall(p, "QBUF", OUTPUT) /\ trace[p].ok /\ IsCall(q, "QBUF", OUTPUT))
            => trace[q].idx # trace[p].idx

\* REQBUFS has succeeded on the OUTPUT queue
ReqBufsDone == \E p \in Pos : IsCall(p, "REQBUFS", OUTPUT) /\ trace[p].ok

\* C6: once REQBUFS succeeded the pool's buffer count is the granted count G,
\* and every index passed to QUERYBUF or QBUF lies in 0..G-1.
C6_IndicesWithinGrant ==
    /\ ReqBufsDone => oc = granted
    /\ \A p \in Pos :
         (IsCall(p, "QUERYBUF", OUTPUT) \/ IsCall(p, "QBUF", OUTPUT))
             => trace[p].idx \in 0..(granted - 1)

\* C7: after the pool was mapped successfully (queue_buffers returned true),
\* every plane slot of every buffer 0..G-1 has a recorded mapping exactly
\* when the device's length for it is non-zero, and no mmap was called for
\* a plane of length zero.
C7_MappedIffNonZero ==
    /\ pc = "streamon" =>
         \A k \in 0..(granted - 1), j \in Slots :
             IsMapping(out[k].plane[j]) <=> devlen[j] # 0
    /\ \A p \in Pos : trace[p].op = "mmap" => devlen[trace[p].pl] # 0

\* C8: every plane is mapped at most once, and when the process exits every
\* plane that was mapped has been unmapped exactly once.
C8_MappedOnceUnmappedOnce ==
    /\ \A k \in BufIdx, j \in Slots : mapcnt[k][j] <= 1
    /\ pc = "exit" => \A k \in BufIdx, j \in Slots : unmapcnt[k][j] = mapcnt[k][j]

\* C9: STREAMON for the OUTPUT queue is issued only after the header buffer
\* (index 0) was enqueued successfully, for every granted count, 0 included.
C9_StreamOnAfterHeader ==
    \A p \in Pos : IsCall(p, "STREAMON", OUTPUT) => HeaderQueuedBefore(p)

\* C10: G_FMT for the CAPTURE queue is issued only after the header buffer
\* was queued and STREAMON was issued for the OUTPUT queue.
C10_CaptureFormatAfterStreamOn ==
    \A p \in Pos :
        IsCall(p, "G_FMT", CAPTURE) =>
            /\ HeaderQueuedBefore(p)
            /\ \E q \in 1..(p - 1) : IsCall(q, "STREAMON", OUTPUT)

\* C11 - munmap and close come only after stream-off was issued for every
\* direction on which stream-on succeeded: nothing is unmapped or closed
\* while a direction is streaming.
StreamingAt(p, t) ==
    \E q \in 1..(p - 1) :
        /\ IsCall(q, "STREAMON", t) /\ trace[q].ok
        /\ ~\E r \in (q + 1)..(p - 1) : IsCall(r, "STREAMOFF", t)

C11_TeardownAfterStreamOff ==
    \A p \in Pos :
        trace[p].op \in {"close", "munmap"} =>
            \A t \in {OUTPUT, CAPTURE} : ~StreamingAt(p, t)

\* C12 - once the teardown (close_device, unmap_buffers) has run, running it
\* again makes no close and no munmap call: the state main ends in is one
\* where a further close_device and unmap_buffers find nothing to do.
SecondTeardownCalls ==
    close_device_calls(handler) \/ UnmapEvents(0) # <<>>

C12_SecondTeardownSilent ==
    [][(pc = "free" /\ pc' = "exit") => ~SecondTeardownCalls']_vars

\* C13 - close is never called on the sentinel -1, a device that was opened
\* is closed at most once, and exactly once when main has returned.
Closes(d) == {p \in Pos : trace[p].op = "close" /\ trace[p].dev = d}

C13_ClosedOnceNeverOnSentinel ==
    /\ Closes(-1) = {}
    /\ \A d \in 0..(NumEntries - 1) :
         /\ Cardinality(Closes(d)) <= 1
         /\ (pc = "exit" /\ \E p \in Pos : trace[p] = Ev("open", d, NOTYPE, -1, -1, TRUE))
                => Cardinality(Closes(d)) = 1

\* C14 - when main has returned, on success and after a failure at any
\* point, no descriptor is open and no plane is still mapped.
C14_NothingLeftAtExit ==
    pc = "exit" =>
        /\ isopen = {}
        /\ \A k \in BufIdx, j \in Slots : mapcnt[k][j] - unmapcnt[k][j] = 0

\* C15 - every QBUF of OUTPUT buffer 0 passes the input's extradata length as
\* plane 0's bytesused, and once the OUTPUT buffers are primed (STREAMON is
\* issued) buffer 0 has been enqueued.
C15_HeaderCarriesExtradata ==
    /\ \A p \in Pos :
         (IsCall(p, "QBUF", OUTPUT) /\ trace[p].idx = 0)
            => trace[p].arg = <<extradata_size>>
    /\ (\E p \in Pos : IsCall(p, "STREAMON", OUTPUT))
         => \E q \in Pos : IsCall(q, "QBUF", OUTPUT) /\ trace[q].idx = 0 /\ trace[q].ok

\* C16 - main's exit code is EXIT_SUCCESS exactly when STREAMON for the
\* OUTPUT queue succeeded, and then a supported codec was identified and
\* every call made on the session's device up to it succeeded; without that
\* the exit code is EXIT_FAILURE.
StreamOnOk(p) == IsCall(p, "STREAMON", OUTPUT) /\ trace[p].ok

SetupOps ==
    {"open", "QUERYCAP", "S_FMT", "G_FMT", "REQBUFS", "QUERYBUF", "mmap", "QBUF",
     "STREAMON"}

C17_OnlyTeardownAfterFailure ==
    \A p \in Pos :
        (trace[p].op \in SetupOps /\ ~trace[p].ok) =>
            \A q \in Pos : q > p => trace[q].op \in {"munmap", "close"}

\* C18 - once a device has failed capability verification, the session
\* fails and no other device is opened or queried.
C18_NoOtherDeviceTried ==
    \A d \in rejected :
        /\ ret = "EXIT_FAILURE"
        /\ \A p \in Pos, q \in Pos :
             (trace[p].dev = d /\ trace[p].op = "QUERYCAP" /\ q > p
              /\ trace[q].op \in {"open", "QUERYCAP"})
                => trace[q].dev = d

\* C19 - every S_FMT request for the OUTPUT queue carries the codec that
\* get_codec_id returned for the input and a plane-0 sizeimage of 3145728.
C19_SFmtCarriesCodecAndBudget ==
    \A p \in Pos :
        IsCall(p, "S_FMT", OUTPUT) => trace[p].arg = <<codec, 3145728>>

\* C20 - REQBUFS for the OUTPUT queue is issued only after an S_FMT for the
\* OUTPUT queue succeeded on the same device.
C20_ReqBufsAfterSFmt ==
    \A p \in Pos :
        IsCall(p, "REQBUFS", OUTPUT) =>
            \E q \in 1..(p - 1) :
                /\ IsCall(q, "S_FMT", OUTPUT)
                /\ trace[q].ok
                /\ trace[q].dev = trace[p].dev

C20_Witness ==
    \E p \in Pos : IsCall(p, "REQBUFS", OUTPUT) /\ trace[p].ok

\* C21 - between a successful STREAMON of the OUTPUT queue and the first
\* munmap or close after it, the session issues G_FMT, REQBUFS, QBUF and
\* STREAMON for the CAPTURE queue.
CaptureSetupWithin(q, p) ==
    \A o \in {"G_FMT", "REQBUFS", "QBUF", "STREAMON"} :
        \E r \in (q + 1)..(p - 1) : IsCall(r, o, CAPTURE)

C21_CaptureSetupBeforeTeardown ==
    \A q \in Pos, p \in Pos :
        (StreamOnOk(q) /\ q < p /\ trace[p].op \in {"munmap", "close"})
            => CaptureSetupWithin(q, p)

\* C23 - when a QBUF for the OUTPUT queue is issued, every non-empty plane of
\* every granted buffer 0..G-1 has been mapped already.
MappedBefore(p, k, j) ==
    \E m \in 1..(p - 1) :
        /\ trace[m].op = "mmap" /\ trace[m].ok
        /\ trace[m].idx = k /\ trace[m].pl = j

C23_AllMappedBeforeFirstQbuf ==
    \A p \in Pos :
        IsCall(p, "QBUF", OUTPUT) =>
            \A k \in 0..(granted - 1), j \in Slots :
                devlen[j] > 0 => MappedBefore(p, k, j)

\* C24 - no munmap comes after the close of the device the planes were
\* mapped from.
C24_UnmapBeforeClose ==
    \A p \in Pos, q \in Pos, m \in Pos :
        (trace[p].op = "munmap" /\ trace[q].op = "close" /\ trace[m].op = "mmap"
         /\ trace[m].dev = trace[q].dev)
            => p < q

\* C26 - after a failed REQBUFS the pool is empty (oc = 0, every record as
\* calloc left it) and no QUERYBUF, mmap, QBUF, STREAMON or munmap follows.
ReqBufsFailed(p) == IsCall(p, "REQBUFS", OUTPUT) /\ ~trace[p].ok

C26_FailedReqBufsLeavesPoolEmpty ==
    \A p \in Pos :
        ReqBufsFailed(p) =>
            /\ oc = 0
            /\ \A k \in BufIdx : out[k] = ZeroBuffer
            /\ \A q \in Pos :
                 q > p => trace[q].op \notin {"QUERYBUF", "mmap", "QBUF", "STREAMON",
                                              "munmap"}

C26_Witness ==
    /\ pc = "exit"
    /\ \E p \in Pos : ReqBufsFailed(p)

\* C27 - whenever v4l2_find_device may return (readdir may give NULL), the
\* handler is the first matching entry that opened and passed the capability
\* check, every matching entry before it was tried and failed, it is -1 when
\* no matching entry passed, and no descriptor but the handler is open.
Passed(d) ==
    /\ d \notin rejected
    /\ \E p \in Pos : trace[p] = Ev("open", d, NOTYPE, -1, -1, TRUE)

TriedAndFailed(d) ==
    /\ \E p \in Pos : trace[p].op = "open" /\ trace[p].dev = d
    /\ ~Passed(d)

SlotDefined(r, j) ==
    IF r = "main_c" THEN j < QUERYBUF_OUTPUT_LENGTH ELSE TRUE

C29_MapsOnlyPopulatedSlots ==
    \A p \in Pos : trace[p].op = "mmap" => SlotDefined(rev, trace[p].pl)

\* C30 - get_codec_id gives, for every stream list, the decoder format of
\* the lowest-index video stream when its codec is H264, MPEG4, H263, MPEG2
\* or MPEG1, and 0 when there is no video stream or its codec is another;
\* and while the codec is 0 no device is located or opened.
VideoStreams(s) == {k \in DOMAIN s : s[k].codec_type = "AVMEDIA_TYPE_VIDEO"}

DecoderFormats ==
    {<<"AV_CODEC_ID_H264", "V4L2_PIX_FMT_H264">>,
     <<"AV_CODEC_ID_MPEG4", "V4L2_PIX_FMT_MPEG4">>,
     <<"AV_CODEC_ID_H263", "V4L2_PIX_FMT_H263">>,
     <<"AV_CODEC_ID_MPEG2VIDEO", "V4L2_PIX_FMT_MPEG2">>,
     <<"AV_CODEC_ID_MPEG1VIDEO", "V4L2_PIX_FMT_MPEG1">>}

ExpectedCodec(s) ==
    IF VideoStreams(s) = {} THEN {NOCODEC}
    ELSE LET k == CHOOSE n \in VideoStreams(s) : \A m \in VideoStreams(s) : n <= m
             f == {e[2] : e \in {x \in DecoderFormats : x[1] = s[k].codec_id}} IN
         IF f = {} THEN {NOCODEC} ELSE f

C30_CodecOfFirstVideoStream ==
    /\ pc = "codec" => \A s \in StreamLists : {get_codec_id(s)} = ExpectedCodec(s)
    /\ codec = NOCODEC =>
         /\ pc \in {"main", "ctxt_open", "codec", "bail", "deinit", "free", "exit"}
         /\ dev = -1 /\ handler = -1
         /\ \A p \in Pos : trace[p].op # "open"

C30_Witness ==
    /\ pc = "bail"
    /\ fc = "ctx"
    /\ codec = NOCODEC

\* C25 - every execution of main reaches its return; the buffer setup loop
\* makes at most one pass (one QUERYBUF) per granted buffer and never two on
\* the same buffer; and main returns only from the end of the teardown path.
Passes == {p \in Pos : IsCall(p, "QUERYBUF", OUTPUT)}

OnePassPerBuffer ==
    /\ Cardinality(Passes) <= granted
    /\ \A p \in Passes, q \in Passes : trace[p].idx = trace[q].idx => p = q

C25_EveryRunTearsDown ==
    /\ <>(pc = "exit")
    /\ []OnePassPerBuffer
    /\ [][pc' = "exit" => pc = "free"]_vars

\* C25, amended - as above, for the executions that get past the argument
\* check: main returns from the end of the teardown path unless it returns
\* at the argument check, before a context exists.
C25_TerminatesThroughTeardown ==
    /\ <>(pc = "exit")
    /\ []OnePassPerBuffer
    /\ [][(pc' = "exit" /\ pc # "main") => pc = "free"]_vars

C25_Witness ==
    /\ pc = "exit"
    /\ granted >= 2
    /\ \A j \in Slots : devlen[j] = 0
    /\ Cardinality(Passes) = 2

\* C28 - in part_002's main every open descriptor is held by one of the three
\* handles while open_devices scans and until close_devices runs, and none
\* is open after close_devices.
C28_NoDescriptorLost ==
    /\ pc \in {"p2_scan", "p2_close"} =>
         isopen \subseteq {decoder_handler, converter_handler, video_handler}
    /\ pc = "p2_exit" => isopen = {}

\* C22 - every successful dequeue matches an earlier successful enqueue of
\* the same queue and index, and the caller reads the plane's bytes-used as
\* the driver reported it: for an OUTPUT buffer the K of that enqueue, for a
\* CAPTURE buffer the size the driver filled in.
C22_DequeueReportsIndexAndBytesUsed ==
    \A p \in 1..Len(trace) :
        (trace[p].op = "DQBUF" /\ trace[p].ok) =>
            /\ trace[p].arg[1] = trace[p].arg[2]
            /\ \E q \in 1..(p - 1) :
                 /\ trace[q].op = "QBUF" /\ trace[q].ok
                 /\ trace[q].type = trace[p].type
                 /\ trace[q].idx = trace[p].idx
                 /\ \A n \in (q + 1)..(p - 1) :
                      ~(/\ trace[n].op = "QBUF" /\ trace[n].ok
                        /\ trace[n].type = trace[p].type
                        /\ trace[n].idx = trace[p].idx)
                 /\ trace[p].type = OUTPUT => trace[p].arg[1] = trace[q].arg[1]

\* the results a thread gets from the calls evs, in order, are results it can
\* get running alone on a queue that holds the buffers q
RECURSIVE SoloRun(_, _)
SoloRun(evs, q) ==
    IF evs = <<>> THEN TRUE
    ELSE LET e == Head(evs) IN
         IF ~e.ok THEN SoloRun(Tail(evs), q)
         ELSE IF e.op = "QBUF"
         THEN /\ \A n \in 1..Len(q) : q[n] # e.idx
              /\ SoloRun(Tail(evs), Append(q, e.idx))
         ELSE /\ q # <<>>
              /\ e.idx = Head(q)
              /\ SoloRun(Tail(evs), Tail(q))

ResultsOf(t) == SelectSeq(trace, LAMBDA e : e.type = t)

\* C31 - with one thread on the OUTPUT queue and one on the CAPTURE queue of
\* the same descriptor, in every interleaving of their v4l2_mfc_qbuf and
\* v4l2_mfc_dqbuf calls each thread's struct is written for its own queue
\* only and the results each thread gets are results of a run of that thread
\* alone.
C31_ThreadsIndependent ==
    \A t \in Threads :
        /\ tbuf[t].type \in {NOTYPE, t}
        /\ SoloRun(ResultsOf(t), <<>>)

\* the OUTPUT thread has a buffer back from a dequeue while the CAPTURE
\* thread is inside a call that queued a buffer
C31_Witness ==
    /\ pc = "thr_run"
    /\ \E p \in 1..Len(trace) :
         trace[p].op = "DQBUF" /\ trace[p].ok /\ trace[p].type = OUTPUT
    /\ tpc[CAPTURE] = "qbuf_ret"
    /\ tret[CAPTURE]
====
